---- MODULE Spec2Model ----
(***************************************************************************)
(* A model of deblockator's heap block (src/src/hole.rs): one fixed-size   *)
(* block of memory managed as an address-sorted, intrusive list of holes,  *)
(* with first-fit allocation and coalescing deallocation.                  *)
(*                                                                         *)
(* Addresses and sizes are bytes.  `usize` is modelled as an unsigned word *)
(* of UsizeBits bits (TLC's integers are 32 bit wide, so the word is       *)
(* narrower than on the real targets; every sum below is taken on the      *)
(* unbounded integers first and then reduced, so that an overflow is seen).*)
(* Every hole header is written with `ptr.write` and must be aligned for a *)
(* Hole, so the block and the ordinary requests are multiples of the word. *)
(***************************************************************************)
EXTENDS Integers, Sequences, FiniteSets, TLC

VARIABLES
    block_start,  \* address of the HeapBlock header (the `block_ptr` given to new)
    block_next,   \* the block's `next` link: None or Some(address of the next block)
    first,        \* the hole list: first[1] is the sentinel `first`, then the real holes
    allocated,    \* outstanding allocations: records [addr, size] handed to the caller
    status,       \* "running", "aborted" (a panic), "undefined" (memory was corrupted)
    hist,         \* the last two operations, most recent first, each with the list before it
    req_sizes     \* the request sizes the caller of this block uses

vars == <<block_start, block_next, first, allocated, status, hist, req_sizes>>

----------------------------------------------------------------------------
(* Sizes of the machine and of the block.                                  *)

\* size_of::<usize>()
WORD == 8

\* width of usize in the model
UsizeBits == 30

UsizeModulus == 2 ^ UsizeBits

UsizeMax == UsizeModulus - 1

\* isize::MAX, the largest size a valid Layout can have
IsizeMax == (UsizeModulus \div 2) - 1

\* the block's capacity BS, in words
BlockWords == 13

\* BS::to_usize()
BS == BlockWords * WORD

\* the largest ordinary request, in words
MaxReqWords == 3

\* the largest requested alignment is min_size * 2^MaxAlignSteps
MaxAlignSteps == 1

\* HeapBlock::min_size()
min_size == WORD * 2

\* size_of::<HeapBlock>(): the `next` link and the sentinel Hole (size, next)
HeapBlockSize == 3 * WORD

\* the block addresses tried: one low in the address space, one in its upper half
BlockStarts == {WORD, UsizeModulus \div 2}

Sizes == {k * WORD : k \in 2..MaxReqWords}

\* sizes no block can hold: the largest valid Layout size that is a whole number
\* of words, and the largest usize
HugeSizes == {IsizeMax + 1 - WORD, UsizeMax}

\* every address of the model is a multiple of the word size, so the alignments
\* up to a word's all behave as alignment 1
Aligns == {1} \cup {2 * WORD * (2 ^ k) : k \in 0..MaxAlignSteps}

\* usable bytes of the block: from the end of the header to the end of the block
UsableStart == block_start + HeapBlockSize

UsableEnd == block_start + BS

----------------------------------------------------------------------------
(* usize arithmetic.                                                       *)

Wrap(x) == x % UsizeModulus

Overflows(x) == x < 0 \/ x > UsizeMax

\* utils::align_up: the least multiple of align that is >= addr
align_up(addr, align) == Wrap(((addr + align - 1) \div align) * align)

HoleInfo(addr, size) == [addr |-> addr, size |-> size]

None == <<>>

Some(x) == <<x>>

----------------------------------------------------------------------------
(* split_hole: the outcome is "some" (with the allocation and its          *)
(* paddings), "none" (the hole is rejected) or "panic" (an arithmetic      *)
(* overflow in a build with overflow checks).  Without overflow checks the *)
(* wrapped values are used.                                                *)

SplitResult(res, info, front, back) ==
    [res |-> res, info |-> info, front_padding |-> front, back_padding |-> back]

SplitNone == SplitResult("none", HoleInfo(0, 0), None, None)

SplitPanic == SplitResult("panic", HoleInfo(0, 0), None, None)

\* a variant that aligns the hole's own address up when it is not aligned
split_hole_tight(hole, required_size, required_align, checked) ==
    LET unaligned == hole.addr # align_up(hole.addr, required_align)
        aligned_addr == align_up(hole.addr, required_align)
        front_padding == IF unaligned
                           THEN Some(HoleInfo(hole.addr, Wrap(aligned_addr - hole.addr)))
                           ELSE None
        aligned_size == hole.size - (aligned_addr - hole.addr)
        remains == Wrap(aligned_size) - required_size
    IN  IF Wrap(aligned_addr + required_size) > Wrap(hole.addr + hole.size)
          THEN SplitNone
        ELSE IF Wrap(aligned_size) = required_size
          THEN SplitResult("some", HoleInfo(aligned_addr, required_size), front_padding, None)
        ELSE IF Wrap(remains) < min_size
          THEN SplitNone
        ELSE SplitResult("some", HoleInfo(aligned_addr, required_size), front_padding,
                         Some(HoleInfo(Wrap(aligned_addr + required_size), Wrap(remains))))

\* a variant that accepts a hole whatever remains behind the allocation
split_hole_sliver(hole, required_size, required_align, checked) ==
    LET unaligned == hole.addr # align_up(hole.addr, required_align)
        aligned_addr == IF unaligned THEN align_up(Wrap(hole.addr + min_size), required_align)
                                     ELSE hole.addr
        front_padding == IF unaligned
                           THEN Some(HoleInfo(hole.addr, Wrap(aligned_addr - hole.addr)))
                           ELSE None
        aligned_size == hole.size - (aligned_addr - hole.addr)
        remains == Wrap(aligned_size) - required_size
    IN  IF Wrap(aligned_addr + required_size) > Wrap(hole.addr + hole.size)
          THEN SplitNone
        ELSE IF Wrap(aligned_size) = required_size
          THEN SplitResult("some", HoleInfo(aligned_addr, required_size), front_padding, None)
        ELSE SplitResult("some", HoleInfo(aligned_addr, required_size), front_padding,
                         Some(HoleInfo(Wrap(aligned_addr + required_size), Wrap(remains))))

\* a variant that also rejects a remainder of exactly min_size
split_hole_strict(hole, required_size, required_align, checked) ==
    LET unaligned == hole.addr # align_up(hole.addr, required_align)
        aligned_addr == IF unaligned THEN align_up(Wrap(hole.addr + min_size), required_align)
                                     ELSE hole.addr
        front_padding == IF unaligned
                           THEN Some(HoleInfo(hole.addr, Wrap(aligned_addr - hole.addr)))
                           ELSE None
        aligned_size == hole.size - (aligned_addr - hole.addr)
        remains == Wrap(aligned_size) - required_size
    IN  IF Wrap(aligned_addr + required_size) > Wrap(hole.addr + hole.size)
          THEN SplitNone
        ELSE IF Wrap(aligned_size) = required_size
          THEN SplitResult("some", HoleInfo(aligned_addr, required_size), front_padding, None)
        ELSE IF Wrap(remains) <= min_size
          THEN SplitNone
        ELSE SplitResult("some", HoleInfo(aligned_addr, required_size), front_padding,
                         Some(HoleInfo(Wrap(aligned_addr + required_size), Wrap(remains))))

split_hole(hole, required_size, required_align, checked) ==
    LET unaligned == hole.addr # align_up(hole.addr, required_align)
        shifted == hole.addr + min_size
        aligned_addr == IF unaligned THEN align_up(Wrap(shifted), required_align)
                                     ELSE hole.addr
        front_padding == IF unaligned
                           THEN Some(HoleInfo(hole.addr, Wrap(aligned_addr - hole.addr)))
                           ELSE None
        alloc_end == aligned_addr + required_size
        hole_end == hole.addr + hole.size
        aligned_size == hole.size - (aligned_addr - hole.addr)
        remains == Wrap(aligned_size) - required_size
    IN  IF checked /\ ((unaligned /\ (Overflows(shifted) \/ Overflows(aligned_addr - hole.addr)))
                        \/ Overflows(alloc_end) \/ Overflows(hole_end))
          THEN SplitPanic
        ELSE IF Wrap(alloc_end) > Wrap(hole_end)
          THEN SplitNone
        ELSE IF checked /\ Overflows(aligned_size)
          THEN SplitPanic
        ELSE IF Wrap(aligned_size) = required_size
          THEN SplitResult("some", HoleInfo(aligned_addr, required_size), front_padding, None)
        ELSE IF checked /\ Overflows(remains)
          THEN SplitPanic
        ELSE IF Wrap(remains) < min_size
          THEN SplitNone
        ELSE SplitResult("some", HoleInfo(aligned_addr, required_size), front_padding,
                         Some(HoleInfo(Wrap(aligned_addr + required_size), Wrap(remains))))

----------------------------------------------------------------------------
(* The list.  A hole is a record [addr, size]; its `next` link is its      *)
(* successor in the sequence.  Hole::info() of a node is the record itself.*)

\* the sentinel `first` lives inside the block header; its address is never
\* read while its size is 0
Sentinel == HoleInfo(block_start + WORD, 0)

RemoveAt(list, i) == SubSeq(list, 1, i - 1) \o SubSeq(list, i + 1, Len(list))

InsertAfter(list, i, h) == SubSeq(list, 1, i) \o <<h>> \o SubSeq(list, i + 1, Len(list))

\* a variant that leaves the hole's size as it was
SetSize_keep(list, i, size) == list

SetSize(list, i, size) == [list EXCEPT ![i].size = size]

----------------------------------------------------------------------------
(* allocate_first_fit (the free function): walks the list from `previous`  *)
(* = list[i]; on the first hole that split_hole accepts, unlinks it and    *)
(* returns the allocation.  iters counts the loop iterations.              *)

AllocOutcome(res, list, allocation, index, iters) ==
    [res |-> res, list |-> list, allocation |-> allocation, index |-> index, iters |-> iters]

RECURSIVE allocate_first_fit_from(_, _, _, _, _, _)
\* a variant that unlinks every hole it rejects
allocate_first_fit_from_unlink(list, i, size, align, checked, n) ==
    IF i < Len(list)
      THEN LET allocation == split_hole(list[i + 1], size, align, checked)
           IN  IF allocation.res = "panic"
                 THEN AllocOutcome("panic", list, allocation, i + 1, n)
               ELSE IF allocation.res = "some"
                 THEN AllocOutcome("ok", RemoveAt(list, i + 1), allocation, i + 1, n)
               ELSE allocate_first_fit_from(RemoveAt(list, i + 1), i, size, align, checked, n + 1)
      ELSE AllocOutcome("err", list, SplitNone, 0, n)

allocate_first_fit_from(list, i, size, align, checked, n) ==
    IF i < Len(list)
      THEN LET allocation == split_hole(list[i + 1], size, align, checked)
           IN  IF allocation.res = "panic"
                 THEN AllocOutcome("panic", list, allocation, i + 1, n)
               ELSE IF allocation.res = "some"
                 THEN AllocOutcome("ok", RemoveAt(list, i + 1), allocation, i + 1, n)
               ELSE allocate_first_fit_from(list, i + 1, size, align, checked, n + 1)
      ELSE AllocOutcome("err", list, SplitNone, 0, n)

\* a variant that takes the first real hole for `previous`
allocate_first_fit_skip(list, size, align, checked) ==
    allocate_first_fit_from(list, 2, size, align, checked, 1)

allocate_first_fit(list, size, align, checked) == allocate_first_fit_from(list, 1, size, align, checked, 1)

----------------------------------------------------------------------------
(* deallocate (the free function): walks the list from `hole` = list[i].   *)
(* The outcome is "done" or "assert" (the invalid deallocation assertion). *)
(* mutated tells whether the call has changed the list so far.             *)

DeallocOutcome(res, list, iters, mutated) ==
    [res |-> res, list |-> list, iters |-> iters, mutated |-> mutated]

\* the address deallocate takes a node to have: 0 for the size-0 dummy head
\* a variant that takes the dummy hole to lie where the node itself ends
hole_addr_of_end(hole) == IF hole.size = 0 THEN hole.addr + 2 * WORD ELSE hole.addr

hole_addr_of(hole) == IF hole.size = 0 THEN 0 ELSE hole.addr

\* a variant that compares the hole's start, not its end
behind_hole_start(hole, addr) == hole_addr_of(hole) <= addr

\* the assertion: the freed address is behind the current hole
behind_hole(hole, addr) == Wrap(hole_addr_of(hole) + hole.size) <= addr

\* a variant that takes the hole's start for its end
right_behind_start(hole, addr) == hole_addr_of(hole) = addr

\* the freed block starts where the current hole ends
right_behind(hole, addr) == Wrap(hole_addr_of(hole) + hole.size) = addr

\* a variant that takes the freed block's start for its end
right_before_start(addr, size, next) == addr = next.addr

\* the freed block ends where the next hole starts
right_before(addr, size, next) == Wrap(addr + size) = next.addr

\* a variant that forgets the next hole's size
merged_size_short(hole, size, next) == Wrap(hole.size + size)

\* the size of the current hole merged with the freed block and the next hole
merged_size(hole, size, next) == Wrap(hole.size + Wrap(size + next.size))

RECURSIVE dealloc_loop(_, _, _, _, _, _)

\* a variant that looks for a next hole right behind the block before it
\* asserts that the block lies behind the current hole
dealloc_loop_late_assert(list, i, addr, size, n, mutated) ==
    LET hole == list[i]
        has_next == i < Len(list)
        next == list[i + 1]
    IN  IF has_next /\ ~right_behind(hole, addr) /\ right_before(addr, size, next)
          THEN dealloc_loop(RemoveAt(list, i + 1), i, addr, Wrap(size + next.size), n + 1, TRUE)
        ELSE IF ~behind_hole(hole, addr)
          THEN DeallocOutcome("assert", list, n, mutated)
        ELSE IF has_next /\ right_behind(hole, addr) /\ right_before(addr, size, next)
          THEN DeallocOutcome("done",
                   RemoveAt(SetSize(list, i, merged_size(hole, size, next)), i + 1), n, TRUE)
        ELSE IF right_behind(hole, addr)
          THEN DeallocOutcome("done", SetSize(list, i, Wrap(hole.size + size)), n, TRUE)
        ELSE IF has_next /\ next.addr <= addr
          THEN dealloc_loop(list, i + 1, addr, size, n + 1, mutated)
        ELSE DeallocOutcome("done", InsertAfter(list, i, HoleInfo(addr, size)), n, TRUE)

\* a variant that starts again from the head of the list after it has merged
\* the block with the next hole
dealloc_loop_restart(list, i, addr, size, n, mutated) ==
    LET hole == list[i]
        has_next == i < Len(list)
        next == list[i + 1]
    IN  IF ~behind_hole(hole, addr)
          THEN DeallocOutcome("assert", list, n, mutated)
        ELSE IF has_next /\ right_behind(hole, addr) /\ right_before(addr, size, next)
          THEN DeallocOutcome("done",
                   RemoveAt(SetSize(list, i, merged_size(hole, size, next)), i + 1), n, TRUE)
        ELSE IF right_behind(hole, addr)
          THEN DeallocOutcome("done", SetSize(list, i, Wrap(hole.size + size)), n, TRUE)
        ELSE IF has_next /\ right_before(addr, size, next)
          THEN dealloc_loop(RemoveAt(list, i + 1), 1, addr, Wrap(size + next.size), n + 1, TRUE)
        ELSE IF has_next /\ next.addr <= addr
          THEN dealloc_loop(list, i + 1, addr, size, n + 1, mutated)
        ELSE DeallocOutcome("done", InsertAfter(list, i, HoleInfo(addr, size)), n, TRUE)

dealloc_loop(list, i, addr, size, n, mutated) ==
    LET hole == list[i]
        has_next == i < Len(list)
        next == list[i + 1]
    IN  IF ~behind_hole(hole, addr)
          THEN DeallocOutcome("assert", list, n, mutated)
        ELSE IF has_next /\ right_behind(hole, addr) /\ right_before(addr, size, next)
          THEN \* the block fills the gap between this hole and the next one
               DeallocOutcome("done",
                   RemoveAt(SetSize(list, i, merged_size(hole, size, next)), i + 1), n, TRUE)
        ELSE IF right_behind(hole, addr)
          THEN \* the block is right behind this hole
               DeallocOutcome("done", SetSize(list, i, Wrap(hole.size + size)), n, TRUE)
        ELSE IF has_next /\ right_before(addr, size, next)
          THEN \* the block is right before the next hole: drop it and retry
               dealloc_loop(RemoveAt(list, i + 1), i, addr, Wrap(size + next.size), n + 1, TRUE)
        ELSE IF has_next /\ next.addr <= addr
          THEN \* the block is behind the next hole
               dealloc_loop(list, i + 1, addr, size, n + 1, mutated)
        ELSE \* the block is between this hole and the next one, or behind the last
               DeallocOutcome("done", InsertAfter(list, i, HoleInfo(addr, size)), n, TRUE)

deallocate(list, addr, size) == dealloc_loop(list, 1, addr, size, 1, FALSE)

----------------------------------------------------------------------------
(* HeapBlock::allocate_first_fit: asserts the minimum size, searches, and  *)
(* frees the paddings of the allocation again.                             *)

BlockAllocOutcome(res, addr, list, index, iters) ==
    [res |-> res, addr |-> addr, list |-> list, index |-> index, iters |-> iters]

\* a variant that never gives a padding back to the list
free_padding_drop(list, padding) == DeallocOutcome("done", list, 0, FALSE)

free_padding(list, padding) ==
    IF padding = None THEN DeallocOutcome("done", list, 0, FALSE)
                      ELSE deallocate(list, padding[1].addr, padding[1].size)

\* a variant that forgets to free the back padding again
HeapBlock_allocate_first_fit_leak(list, size, align, checked) ==
    IF ~(size >= min_size)
      THEN BlockAllocOutcome("panic", 0, list, 0, 0)
      ELSE LET found == allocate_first_fit(list, size, align, checked)
               front == free_padding(found.list, found.allocation.front_padding)
           IN  IF found.res # "ok"
                 THEN BlockAllocOutcome(found.res, 0, found.list, found.index, found.iters)
               ELSE IF front.res = "assert"
                 THEN BlockAllocOutcome("panic", 0, front.list, found.index, found.iters)
               ELSE BlockAllocOutcome("ok", found.allocation.info.addr, front.list,
                                      found.index, found.iters)

HeapBlock_allocate_first_fit(list, size, align, checked) ==
    IF ~(size >= min_size)
      THEN BlockAllocOutcome("panic", 0, list, 0, 0)
      ELSE LET found == allocate_first_fit(list, size, align, checked)
               front == free_padding(found.list, found.allocation.front_padding)
               back == free_padding(front.list, found.allocation.back_padding)
           IN  IF found.res # "ok"
                 THEN BlockAllocOutcome(found.res, 0, found.list, found.index, found.iters)
               ELSE IF front.res = "assert"
                 THEN BlockAllocOutcome("panic", 0, front.list, found.index, found.iters)
               ELSE IF back.res = "assert"
                 THEN BlockAllocOutcome("panic", 0, back.list, found.index, found.iters)
               ELSE BlockAllocOutcome("ok", found.allocation.info.addr, back.list,
                                      found.index, found.iters)

\* HeapBlock::deallocate
HeapBlock_deallocate(list, ptr, size) == deallocate(list, ptr, size)

\* size_of::<Hole>(): the size and the `next` link
HoleSize == 2 * WORD

\* size of the block's own `next` link, the part of the header before `first`
NextLinkSize == WORD

\* HeapBlock::new: the `next` link written into the header
HeapBlock_new_next == None

\* a variant that takes the new hole's own header off its size as well
HeapBlock_new_less(block_ptr) ==
    <<HoleInfo(block_ptr + WORD, 0),
      HoleInfo(block_ptr + HeapBlockSize, BS - HeapBlockSize - HoleSize)>>

\* HeapBlock::new: the header, then one hole over the rest of the block
HeapBlock_new(block_ptr) ==
    <<HoleInfo(block_ptr + WORD, 0), HoleInfo(block_ptr + HeapBlockSize, BS - HeapBlockSize)>>

\* the BS of the type HeapBlock::new returns: its signature names the plain
\* `HeapBlock`, which is HeapBlock<U65536> whatever BS new was called with
DefaultBS == 65536

\* HeapBlock::contains of the block at self_ptr
HeapBlock_contains(self_ptr, that_ptr) ==
    (self_ptr <= that_ptr) /\ (that_ptr <= self_ptr + DefaultBS)

----------------------------------------------------------------------------
(* The operations as actions.                                              *)

OpRecord(op, addr, size, align, res, valid, iters, mutated) ==
    [op |-> op, addr |-> addr, size |-> size, align |-> align, res |-> res,
     valid |-> valid, iters |-> iters, mutated |-> mutated, pre |-> first]

\* hist keeps the operation before the last one only behind a deallocation of
\* an outstanding allocation
Remember(rec) ==
    IF rec.op = "deallocate" /\ rec.valid /\ hist # <<>> THEN <<rec, hist[1]>> ELSE <<rec>>

Init ==
    /\ block_start \in BlockStarts
    /\ block_next = HeapBlock_new_next
    /\ first = HeapBlock_new(block_start)
    /\ allocated = {}
    /\ status = "running"
    /\ hist = <<>>
    /\ req_sizes = Sizes

\* the same, with a caller that also asks for sizes no block can hold
InitHuge ==
    /\ block_start \in BlockStarts
    /\ block_next = HeapBlock_new_next
    /\ first = HeapBlock_new(block_start)
    /\ allocated = {}
    /\ status = "running"
    /\ hist = <<>>
    /\ req_sizes = Sizes \cup HugeSizes

\* a size below min_size()
SmallSizes == {WORD}

\* the same, with a caller that also passes sizes below min_size()
InitSmall ==
    /\ block_start \in BlockStarts
    /\ block_next = HeapBlock_new_next
    /\ first = HeapBlock_new(block_start)
    /\ allocated = {}
    /\ status = "running"
    /\ hist = <<>>
    /\ req_sizes = Sizes \cup SmallSizes

\* block.allocate_first_fit(Layout(size, align)).  An arithmetic overflow
\* panics in a build with overflow checks and wraps in a build without.
Allocate ==
    /\ status = "running"
    /\ \E size \in req_sizes, align \in Aligns, overflow_checks \in BOOLEAN :
         LET strict == HeapBlock_allocate_first_fit(first, size, align, TRUE)
             out == HeapBlock_allocate_first_fit(first, size, align, overflow_checks)
             wrapped == strict.res = "panic" /\ ~overflow_checks
         IN  /\ overflow_checks \/ strict.res = "panic"
             /\ first' = out.list
             /\ allocated' = IF out.res = "ok"
                               THEN allocated \cup {HoleInfo(out.addr, size)}
                               ELSE allocated
             /\ status' = IF out.res = "panic" THEN "aborted"
                          ELSE IF wrapped /\ out.res = "ok" THEN "undefined"
                          ELSE "running"
             /\ hist' = Remember(OpRecord("allocate", out.addr, size, align, out.res,
                                          TRUE, out.iters, out.res = "ok"))
    /\ UNCHANGED <<block_start, block_next, req_sizes>>

\* block.deallocate(ptr, layout) of an outstanding allocation, with its layout
Deallocate ==
    /\ status = "running"
    /\ \E a \in allocated :
         LET out == HeapBlock_deallocate(first, a.addr, a.size)
         IN  /\ first' = out.list
             /\ allocated' = allocated \ {a}
             /\ status' = IF out.res = "assert" THEN "aborted" ELSE "running"
             /\ hist' = Remember(OpRecord("deallocate", a.addr, a.size, 1, out.res,
                                          TRUE, out.iters, out.mutated))
    /\ UNCHANGED <<block_start, block_next, req_sizes>>

\* the addresses a caller's bug may pass to deallocate
FreeAddrs == {UsableStart + k * WORD : k \in 0..(BlockWords - 5)}

\* block.deallocate(ptr, layout) of something that is no outstanding allocation.
\* The call is undefined behaviour by its documentation: when it returns, the
\* model records the list it has built and stops.
DeallocateUnmatched ==
    /\ status = "running"
    /\ \E addr \in FreeAddrs, size \in req_sizes \ HugeSizes :
         LET out == HeapBlock_deallocate(first, addr, size)
         IN  /\ HoleInfo(addr, size) \notin allocated
             /\ first' = out.list
             /\ allocated' = allocated
             /\ status' = IF out.res = "assert" THEN "aborted" ELSE "undefined"
             /\ hist' = Remember(OpRecord("deallocate", addr, size, 1, out.res,
                                          FALSE, out.iters, out.mutated))
    /\ UNCHANGED <<block_start, block_next, req_sizes>>

\* the addresses a caller asks contains about: around the block's start, the
\* end of the capacity it was constructed with, and the end contains uses
ProbeAddrs ==
    {block_start + d : d \in {0 - WORD, 0, HeapBlockSize, BS - WORD, BS, BS + WORD,
                              DefaultBS, DefaultBS + WORD}}

\* block.contains(ptr): a query, nothing of the block is written
Contains ==
    /\ status = "running"
    /\ \E ptr \in ProbeAddrs :
         hist' = <<OpRecord("contains", ptr, 0, 1,
                            IF HeapBlock_contains(block_start, ptr) THEN "true" ELSE "false",
                            TRUE, 0, FALSE)>>
    /\ UNCHANGED <<block_start, block_next, first, allocated, status, req_sizes>>

Next == Allocate \/ Deallocate \/ DeallocateUnmatched

\* a caller that also asks which block an address belongs to
NextContains == Allocate \/ Deallocate \/ Contains

Spec == Init /\ [][Next]_vars

SpecHuge == InitHuge /\ [][Next]_vars

SpecContains == Init /\ [][NextContains]_vars

SpecSmall == InitSmall /\ [][Next]_vars

----------------------------------------------------------------------------
(* Vocabulary of the properties.                                           *)

RealHoles(list) == Tail(list)

End(r) == r.addr + r.size

Bytes(r) == r.addr .. (End(r) - 1)

Disjoint(r, q) == End(r) <= q.addr \/ End(q) <= r.addr

Overlap(r, q) == r.addr < End(q) /\ q.addr < End(r)

Inside(addr, r) == r.addr <= addr /\ addr < End(r)

RECURSIVE TotalSize(_)
TotalSize(holes) == IF holes = <<>> THEN 0 ELSE Head(holes).size + TotalSize(Tail(holes))

RECURSIVE SetTotalSize(_)
SetTotalSize(regions) ==
    IF regions = {} THEN 0
    ELSE LET r == CHOOSE x \in regions : TRUE IN r.size + SetTotalSize(regions \ {r})

\* every call so far was an allocation or the deallocation of an outstanding
\* allocation (a run stops at the first call that is neither)
ContractKept == hist = <<>> \/ hist[1].valid

LastIs(op) == hist # <<>> /\ hist[1].op = op

SortedApart(list) ==
    \A i \in 2..(Len(list) - 1) : End(list[i]) < list[i + 1].addr

----------------------------------------------------------------------------
\* C1: in a run of allocations and deallocations of outstanding allocations,
\* the outstanding allocations and the real holes are pairwise disjoint and
\* together cover exactly the usable bytes of the block, from the end of the
\* header to the end of the block.
PartitionInvariant ==
    ContractKept =>
        LET holes == RealHoles(first)
            idx == 1..Len(holes)
        IN  /\ \A a \in allocated, b \in allocated : a # b => Disjoint(a, b)
            /\ \A a \in allocated, i \in idx : Disjoint(a, holes[i])
            /\ \A i \in idx, j \in idx : i # j => Disjoint(holes[i], holes[j])
            /\ UNION ({Bytes(a) : a \in allocated} \cup {Bytes(holes[i]) : i \in idx})
                   = UsableStart .. (UsableEnd - 1)
            /\ SetTotalSize(allocated) + TotalSize(holes) = UsableEnd - UsableStart

\* C1 witness: two allocations outstanding and two holes, behind a deallocation
PartitionWitness ==
    /\ LastIs("deallocate") /\ hist[1].valid
    /\ Cardinality(allocated) >= 2
    /\ Len(first) >= 3

\* C2: behind every completed allocation or deallocation of an outstanding
\* allocation the real holes are in strictly increasing address order and no
\* hole touches its successor.
ListShapeInvariant == ContractKept => SortedApart(first)

\* C2 witness: three real holes, behind a deallocation that inserted one
ListShapeWitness ==
    /\ LastIs("deallocate") /\ hist[1].valid
    /\ Len(first) >= 4
    /\ Len(first) > Len(hist[1].pre)

----------------------------------------------------------------------------
\* C3: when an allocation succeeds with address X and the very next call
\* deallocates (X, size), the hole list is again the list before the
\* allocation, and the same allocation made again returns X.
ReuseStability ==
    (/\ Len(hist) = 2
     /\ hist[2].op = "allocate" /\ hist[2].res = "ok"
     /\ hist[1].op = "deallocate" /\ hist[1].valid
     /\ hist[1].addr = hist[2].addr /\ hist[1].size = hist[2].size)
    => /\ hist[1].res = "done"
       /\ first = hist[2].pre
       /\ LET again == HeapBlock_allocate_first_fit(first, hist[2].size, hist[2].align, TRUE)
          IN  again.res = "ok" /\ again.addr = hist[2].addr

\* C3 witness: such a round trip, through a hole that was split with a front
\* padding (X is not the start of a hole) while another hole was in the list
ReuseStabilityWitness ==
    /\ Len(hist) = 2
    /\ hist[2].op = "allocate" /\ hist[2].res = "ok"
    /\ hist[1].op = "deallocate" /\ hist[1].valid
    /\ hist[1].addr = hist[2].addr /\ hist[1].size = hist[2].size
    /\ Len(first) >= 3
    /\ \A i \in 2..Len(first) : first[i].addr # hist[1].addr

\* the list after freeing a and then b
FreeBoth(list, a, b) == deallocate(deallocate(list, a.addr, a.size).list, b.addr, b.size).list

\* C4: the list that results from freeing outstanding allocations does not
\* depend on the order: two deallocations made one after the other leave the
\* list that the opposite order leaves, any two outstanding allocations can be
\* freed in either order with the same result, and from a list of one hole,
\* two allocations of equal size freed in either order give back that hole.
OrderIndependentCoalescing ==
    /\ (Len(hist) = 2 /\ hist[1].op = "deallocate" /\ hist[1].valid
                      /\ hist[2].op = "deallocate" /\ hist[2].valid)
         => first = FreeBoth(hist[2].pre, hist[1], hist[2])
    /\ ContractKept =>
         \A a \in allocated, b \in allocated :
             a # b => FreeBoth(first, a, b) = FreeBoth(first, b, a)
    /\ (ContractKept /\ Len(first) = 2) =>
         \A size \in Sizes, align \in Aligns :
             LET A == HeapBlock_allocate_first_fit(first, size, align, TRUE)
                 B == HeapBlock_allocate_first_fit(A.list, size, align, TRUE)
                 a == HoleInfo(A.addr, size)
                 b == HoleInfo(B.addr, size)
             IN  (A.res = "ok" /\ B.res = "ok") =>
                     /\ FreeBoth(B.list, a, b) = first
                     /\ FreeBoth(B.list, b, a) = first

\* C4 witness: two touching allocations of equal size, the lower freed first,
\* the other next, and one hole left that is the whole usable block
OrderIndependentWitness ==
    /\ Len(hist) = 2
    /\ hist[1].op = "deallocate" /\ hist[1].valid
    /\ hist[2].op = "deallocate" /\ hist[2].valid
    /\ hist[1].size = hist[2].size
    /\ End(hist[2]) = hist[1].addr
    /\ Len(hist[2].pre) = 2
    /\ allocated = {}
    /\ first = HeapBlock_new(block_start)

\* the freed range of the last call overlaps a hole of the list before it
LastFreeOverlaps ==
    \E i \in 2..Len(hist[1].pre) : Overlap(hist[1], hist[1].pre[i])

\* the freed address of the last call lies inside a hole of the list before it
LastFreeStartsInHole ==
    \E i \in 2..Len(hist[1].pre) : Inside(hist[1].addr, hist[1].pre[i])

\* C5 as stated: every deallocate whose range overlaps a hole of the list
\* ends at the invalid deallocation assertion.
InvalidFreeDetected ==
    (LastIs("deallocate") /\ LastFreeOverlaps) => hist[1].res = "assert"

\* C5 as amended: deallocate ends at the invalid deallocation assertion
\* exactly when the freed address lies inside a hole of the list; a range
\* that starts outside every hole and runs into a later one is inserted.
InvalidFreeDetectedAtStart ==
    LastIs("deallocate") =>
        /\ hist[1].res = "assert" <=> LastFreeStartsInHole
        /\ (LastFreeOverlaps /\ ~LastFreeStartsInHole) =>
               /\ hist[1].res = "done"
               /\ \E i \in 2..Len(first), j \in 2..Len(first) :
                      i # j /\ Overlap(first[i], first[j])

\* C5 witness: a deallocation inside a hole that is not the first of the list,
\* stopped by the assertion
InvalidFreeWitness ==
    /\ LastIs("deallocate") /\ ~hist[1].valid
    /\ hist[1].res = "assert"
    /\ Len(first) >= 3
    /\ Inside(hist[1].addr, first[3]) /\ hist[1].addr # first[3].addr

\* C6: when allocate_first_fit returns AllocError the hole list is the list
\* before the call.
FailureKeepsList ==
    (LastIs("allocate") /\ hist[1].res = "err") => first = hist[1].pre

\* C6 witness: a failed allocation that walked past two real holes, which
\* together had the bytes asked for
FailureKeepsListWitness ==
    /\ LastIs("allocate") /\ hist[1].res = "err"
    /\ Len(first) >= 3
    /\ TotalSize(RealHoles(first)) >= hist[1].size

\* split_hole accepts the i-th node of the list for the last request
Fits(list, i) == split_hole(list[i], hist[1].size, hist[1].align, TRUE).res = "some"

\* C7: allocate_first_fit succeeds exactly when split_hole accepts some hole
\* of the list, and then the region is the one split_hole carves from the
\* lowest hole it accepts.
FirstFit ==
    LastIs("allocate") =>
        LET pre == hist[1].pre
            fit == {i \in 2..Len(pre) : Fits(pre, i)}
        IN  /\ hist[1].res \in {"ok", "err"}
            /\ hist[1].res = "ok" <=> fit # {}
            /\ hist[1].res = "ok" =>
                   LET j == CHOOSE i \in fit : \A k \in fit : pre[i].addr <= pre[k].addr
                   IN  /\ \A k \in 2..(j - 1) : ~Fits(pre, k)
                       /\ hist[1].addr
                              = split_hole(pre[j], hist[1].size, hist[1].align, TRUE).info.addr
                       /\ Inside(hist[1].addr, pre[j])
                       /\ hist[1].addr + hist[1].size <= End(pre[j])

\* C7 witness: an allocation carved from the second real hole, the lower hole
\* being rejected though it has the bytes asked for
FirstFitWitness ==
    /\ LastIs("allocate") /\ hist[1].res = "ok"
    /\ Len(hist[1].pre) >= 3
    /\ Inside(hist[1].addr, hist[1].pre[3])
    /\ hist[1].pre[2].size >= hist[1].size

----------------------------------------------------------------------------
\* C8: an allocation of a size (any usize from min_size up) larger than the
\* free bytes of the block returns AllocError, and no allocation returns a
\* range that is not inside one hole of the list.
OutOfCapacity ==
    LastIs("allocate") =>
        LET pre == hist[1].pre
        IN  /\ hist[1].size > TotalSize(RealHoles(pre)) => hist[1].res = "err"
            /\ hist[1].res = "ok" =>
                   \E i \in 2..Len(pre) :
                       /\ pre[i].addr <= hist[1].addr
                       /\ hist[1].addr + hist[1].size <= End(pre[i])

\* the hole of the list before the last call that the returned address is in
ChosenHole == CHOOSE h \in {hist[1].pre[i] : i \in 2..Len(hist[1].pre)} : Inside(hist[1].addr, h)

\* C9: an address returned by allocate_first_fit is a multiple of the
\* alignment asked for; when the chosen hole does not start at such a
\* multiple, the bytes from its start to the returned address are at least
\* min_size and are a hole of the list behind the call.
AlignmentPadding ==
    (LastIs("allocate") /\ hist[1].res = "ok") =>
        /\ hist[1].addr % hist[1].align = 0
        /\ \E i \in 2..Len(hist[1].pre) : Inside(hist[1].addr, hist[1].pre[i])
        /\ ChosenHole.addr % hist[1].align # 0 =>
               /\ hist[1].addr - ChosenHole.addr >= min_size
               /\ \E i \in 2..Len(first) :
                      first[i] = HoleInfo(ChosenHole.addr, hist[1].addr - ChosenHole.addr)
        /\ ChosenHole.addr % hist[1].align = 0 => hist[1].addr = ChosenHole.addr

\* C9 witness: an allocation from a hole that starts off the alignment, with
\* a front padding larger than min_size
AlignmentPaddingWitness ==
    /\ LastIs("allocate") /\ hist[1].res = "ok"
    /\ ChosenHole.addr % hist[1].align # 0
    /\ hist[1].addr - ChosenHole.addr > min_size

\* the paddings split_hole leaves are none or at least min_size
PaddingsBigEnough(split) ==
    /\ split.front_padding # None => split.front_padding[1].size >= min_size
    /\ split.back_padding # None => split.back_padding[1].size >= min_size

\* C10: in a run of allocations and deallocations of outstanding allocations
\* every real hole has at least min_size bytes, and no split of a hole of the
\* list leaves a front or back padding smaller than that.
MinimumFragment ==
    ContractKept =>
        /\ \A i \in 2..Len(first) : first[i].size >= min_size
        /\ \A i \in 2..Len(first), size \in Sizes, align \in Aligns :
               LET split == split_hole(first[i], size, align, TRUE)
               IN  split.res = "some" => PaddingsBigEnough(split)

\* C10 witness: a hole that was rejected for an allocation because its
\* remains would have been smaller than min_size, and a hole of min_size
MinimumFragmentWitness ==
    /\ LastIs("allocate") /\ hist[1].res = "ok"
    /\ \E i \in 2..Len(hist[1].pre) :
           /\ hist[1].pre[i].addr % hist[1].align = 0
           /\ End(hist[1].pre[i]) < hist[1].addr
           /\ hist[1].pre[i].size > hist[1].size
           /\ hist[1].pre[i].size - hist[1].size < min_size
    /\ \E i \in 2..Len(first) : first[i].size = min_size

----------------------------------------------------------------------------
\* C11: a freshly constructed block of capacity BS has the size-0 sentinel
\* linked to exactly one real hole without successor; the hole starts right
\* behind the block header, has the capacity less the header (the block's
\* next link and the one Hole embedded in the header) as its size, and so
\* ends at block_start + BS; the block's next link is empty.
Construction ==
    hist = <<>> =>
        /\ Len(first) = 2
        /\ first[1].size = 0
        /\ first[2].addr = block_start + HeapBlockSize
        /\ first[2].size = BS - (NextLinkSize + HoleSize)
        /\ NextLinkSize + HoleSize = HeapBlockSize
        /\ End(first[2]) = block_start + BS
        /\ block_next = None
        /\ allocated = {}

\* C11 witness: the block constructed in the upper half of the address space
ConstructionWitness ==
    /\ hist = <<>>
    /\ block_start > IsizeMax
    /\ first = HeapBlock_new(block_start)

\* C12: contains(addr) is true exactly for block_start <= addr <=
\* block_start + BS, BS being the capacity the block was constructed with,
\* and the call leaves the block and its list as they were.
MembershipOfCapacity ==
    LastIs("contains") =>
        /\ (hist[1].res = "true") <=>
               (block_start <= hist[1].addr /\ hist[1].addr <= block_start + BS)
        /\ first = hist[1].pre

\* the address a second block starts at when it lies right behind this one
NeighbourStart == block_start + BS

\* C13: contains(ptr) is true only for a location that begins in the block,
\* block_start <= ptr < block_start + BS, so that no address is contained by
\* this block and by a block lying right behind it.
MembershipBeginsInside ==
    LastIs("contains") =>
        /\ hist[1].res = "true" =>
               (block_start <= hist[1].addr /\ hist[1].addr < block_start + BS)
        /\ ~(HeapBlock_contains(block_start, hist[1].addr) /\
             HeapBlock_contains(NeighbourStart, hist[1].addr))

\* C14: a call of allocate_first_fit or of deallocate with a size below
\* min_size() ends in the precondition failure and leaves the list as it was,
\* so that no hole smaller than min_size() is in the list.
BelowMinimumRejected ==
    /\ (hist # <<>> /\ hist[1].op \in {"allocate", "deallocate"} /\ hist[1].size < min_size) =>
           /\ hist[1].res \in {"panic", "assert"}
           /\ first = hist[1].pre
    /\ \A i \in 2..Len(first) : first[i].size >= min_size

\* the bytes of the real holes of a list
FreeBytes(list) == UNION {Bytes(list[i]) : i \in 2..Len(list)}

\* the holes of the list before the last call that end where its range
\* starts or start where its range ends
Touching ==
    {i \in 2..Len(hist[1].pre) :
        \/ End(hist[1].pre[i]) = hist[1].addr
        \/ hist[1].pre[i].addr = hist[1].addr + hist[1].size}

\* C15: a deallocate of an outstanding allocation on a sorted list without
\* adjacent holes adds exactly the freed range to the free bytes; the number
\* of holes grows by one when the range touches no hole, stays when it
\* touches one, and drops by one when it fills the gap between two; every
\* hole the range does not touch keeps its address and size.
CoalescingResult ==
    (LastIs("deallocate") /\ hist[1].valid /\ SortedApart(hist[1].pre)) =>
        /\ hist[1].res = "done"
        /\ FreeBytes(first) =
               FreeBytes(hist[1].pre) \cup Bytes(HoleInfo(hist[1].addr, hist[1].size))
        /\ Cardinality(Touching) <= 2
        /\ Len(first) = Len(hist[1].pre) + 1 - Cardinality(Touching)
        /\ \A i \in (2..Len(hist[1].pre)) \ Touching :
               \E j \in 2..Len(first) : first[j] = hist[1].pre[i]
        /\ SortedApart(first)

\* C15 witness: a deallocated range has filled the gap between two holes
\* while a third hole stayed as it was
CoalescingResultWitness ==
    /\ LastIs("deallocate") /\ hist[1].valid /\ hist[1].res = "done"
    /\ Cardinality(Touching) = 2
    /\ Len(hist[1].pre) = 4
    /\ Len(first) = 3

\* the position, in the list before the last call, of the hole the returned
\* address lies in
ChosenIndex == CHOOSE j \in 2..Len(hist[1].pre) : Inside(hist[1].addr, hist[1].pre[j])

\* what is left of that hole before the returned range
FrontRest ==
    LET H == hist[1].pre[ChosenIndex]
    IN  IF hist[1].addr > H.addr THEN <<HoleInfo(H.addr, hist[1].addr - H.addr)>> ELSE <<>>

\* what is left of that hole behind the returned range
BackRest ==
    LET H == hist[1].pre[ChosenIndex]
        end == hist[1].addr + hist[1].size
    IN  IF End(H) > end THEN <<HoleInfo(end, End(H) - end)>> ELSE <<>>

\* C16: a successful allocate_first_fit leaves the old list with the chosen
\* hole replaced, in place, by its front padding (if any) followed by its back
\* padding (if any) as separate holes; every other hole keeps its address,
\* size and place, and no padding is merged into a neighbour.
AllocationEffect ==
    (LastIs("allocate") /\ hist[1].res = "ok") =>
        /\ \E j \in 2..Len(hist[1].pre) : Inside(hist[1].addr, hist[1].pre[j])
        /\ first = SubSeq(hist[1].pre, 1, ChosenIndex - 1) \o FrontRest \o BackRest
                   \o SubSeq(hist[1].pre, ChosenIndex + 1, Len(hist[1].pre))

\* C16 witness: an allocation has left a front padding and a back padding,
\* both in the list as holes of their own
AllocationEffectWitness ==
    /\ LastIs("allocate") /\ hist[1].res = "ok"
    /\ FrontRest # <<>> /\ BackRest # <<>>
    /\ Len(first) = Len(hist[1].pre) + 1

\* the least multiple of align that is no less than x
LeastMultipleFrom(x, align) == x + ((align - (x % align)) % align)

\* the address the rule gives the allocation in a hole
RuleAddr(h, align) ==
    IF h.addr % align = 0 THEN h.addr ELSE LeastMultipleFrom(h.addr + min_size, align)

\* split_hole of the hole h agrees with the rule for the request (size, align)
FollowsSplitRule(h, size, align) ==
    LET a == RuleAddr(h, align)
        r == End(h) - (a + size)
        out == split_hole(h, size, align, TRUE)
    IN  IF a + size <= End(h) /\ (r = 0 \/ r >= min_size)
          THEN /\ out.res = "some"
               /\ out.info = HoleInfo(a, size)
               /\ out.front_padding =
                      IF a > h.addr THEN Some(HoleInfo(h.addr, a - h.addr)) ELSE None
               /\ out.back_padding = IF r > 0 THEN Some(HoleInfo(a + size, r)) ELSE None
               /\ (a - h.addr) + size + r = h.size
          ELSE out.res = "none"

\* C17: for every hole and request, split_hole puts the allocation at the
\* hole's address when that is aligned and else at the first aligned address
\* from the hole's address + min_size on; it succeeds exactly when the
\* allocation ends inside the hole and what remains behind it is nothing or at
\* least min_size; front padding, allocation and back padding then lie one
\* behind the other and make up the hole.
SplitRule ==
    \A i \in 2..Len(first) : \A size \in Sizes, align \in Aligns :
        FollowsSplitRule(first[i], size, align)

\* the request would fit the hole h at the first aligned address from the
\* hole's own address on
FitsTight(h, size, align) ==
    LET t == LeastMultipleFrom(h.addr, align)
        r == End(h) - (t + size)
    IN  t + size <= End(h) /\ (r = 0 \/ r >= min_size)

\* C17 witness: a hole with an unaligned start is rejected for a request
\* that a tighter aligned address would fit
SplitRuleWitness ==
    \E i \in 2..Len(first) : \E size \in Sizes, align \in Aligns :
        /\ first[i].addr % align # 0
        /\ split_hole(first[i], size, align, TRUE).res = "none"
        /\ FitsTight(first[i], size, align)
        /\ FollowsSplitRule(first[i], size, align)

\* C18: when deallocate on a sorted list without adjacent holes stops at its
\* assertion, it has resized, unlinked and inserted nothing: the list is the
\* one the call found, and no iteration before the failing one has written.
FatalPathKeepsList ==
    (LastIs("deallocate") /\ hist[1].res = "assert" /\ SortedApart(hist[1].pre)) =>
        /\ first = hist[1].pre
        /\ ~hist[1].mutated
        /\ status = "aborted"

\* C18 witness: the assertion has failed at a hole the walk had to advance
\* to, in a list of several holes
FatalPathWitness ==
    /\ LastIs("deallocate") /\ hist[1].res = "assert"
    /\ hist[1].iters >= 3
    /\ Len(hist[1].pre) >= 4
    /\ first = hist[1].pre

\* the iterations of the two deallocate calls that give the paddings of the
\* last allocation back, each against the length of the list it walks
PaddingWalksBounded ==
    LET found == allocate_first_fit(hist[1].pre, hist[1].size, hist[1].align, TRUE)
        front == free_padding(found.list, found.allocation.front_padding)
        back == free_padding(front.list, found.allocation.back_padding)
    IN  /\ found.res = "ok"
        /\ found.iters = hist[1].iters
        /\ front.iters <= Len(found.list)
        /\ back.iters <= Len(front.list)

\* C19: every call of allocate_first_fit and of deallocate ends after at most
\* as many loop iterations as the list has nodes (its holes and the sentinel),
\* the retry after a merge with the next hole included; so do the deallocate
\* calls that give the paddings of an allocation back.
BoundedIterations ==
    /\ LastIs("allocate") =>
           /\ hist[1].iters <= Len(hist[1].pre)
           /\ hist[1].res \in {"ok", "err"}
           /\ hist[1].res = "ok" => PaddingWalksBounded
    /\ (LastIs("deallocate") /\ SortedApart(hist[1].pre)) =>
           /\ hist[1].iters >= 1
           /\ hist[1].iters <= Len(hist[1].pre)
           /\ hist[1].res \in {"done", "assert"}

\* C19 witness: a deallocate has walked to the last but one node of a list of
\* several holes, merged the block with the last hole and gone round again
BoundedIterationsWitness ==
    /\ LastIs("deallocate") /\ hist[1].res = "done"
    /\ Len(hist[1].pre) >= 3
    /\ hist[1].iters = Len(hist[1].pre)
    /\ hist[1].pre[Len(hist[1].pre)].addr = hist[1].addr + hist[1].size
    /\ Len(first) = Len(hist[1].pre)

\* C20: in every state the head of the list is the sentinel in the block
\* header with size 0, and no other node has size 0; no call has grown or
\* unlinked it, and nothing handed out or returned lies in the header.
SentinelInvariant ==
    /\ Len(first) >= 1
    /\ first[1] = Sentinel
    /\ first[1].size = 0
    /\ hole_addr_of(first[1]) = 0
    /\ \A i \in 2..Len(first) : first[i].size # 0 /\ hole_addr_of(first[i]) = first[i].addr
    /\ \A a \in allocated : a.addr >= UsableStart
    /\ (LastIs("allocate") /\ hist[1].res = "ok") => hist[1].addr >= UsableStart

\* C20 witness: a deallocate of the first bytes behind the header, which met
\* the sentinel as its current hole, has put its hole behind the sentinel
SentinelWitness ==
    /\ LastIs("deallocate") /\ hist[1].valid /\ hist[1].res = "done"
    /\ hist[1].addr = UsableStart
    /\ hist[1].iters = 1
    /\ Len(first) >= 3
    /\ first[1] = Sentinel
    /\ first[2] = HoleInfo(hist[1].addr, hist[1].size)

====
